---------------------------- MODULE Spec2Model ----------------------------
(***************************************************************************)
(* Model of toy_pay: a replay of a stream of transaction records into      *)
(* per-client accounts (src/src/transaction.rs) driven by the read loop of *)
(* src/src/main.rs.                                                        *)
(*                                                                         *)
(* Money is fixed-point: every quantity is an integer number of 1e-5       *)
(* units, so that an amount can carry a fifth decimal digit and the        *)
(* rounding of round_values (to 4 decimal places, i.e. to a multiple of    *)
(* 10 units, half away from zero as f64::round does) is observable.        *)
(* Option<T> is a sequence: << >> is None and <<v>> is Some(v).            *)
(* A HashMap is a function whose DOMAIN is the set of keys present.        *)
(***************************************************************************)
EXTENDS Integers, Sequences, FiniteSets, TLC

\* ----------------------------------------------------------------------
\* Bounds of the model
\* ----------------------------------------------------------------------

\* number of rows the input file may hold
MaxRecords == 4

\* the client ids and the transaction ids (u16, u32) the rows may carry
Clients == {1, 2}

TxIds == {1, 2}

\* amounts a deposit/withdrawal row of client 1 may carry, in 1e-5 units:
\* 0.00015 (a fifth decimal digit) and 50.0
Amounts == {15, 5000000}

None == << >>

Some(v) == <<v>>

\* the five kinds process_transaction dispatches on, and one it does not know
Kinds == {"deposit", "withdrawal", "dispute", "resolve", "chargeback"}

UnknownKind == "unsupported_action"

\* ----------------------------------------------------------------------
\* Record (transaction.rs:7-14)
\* ----------------------------------------------------------------------

Record(t, c, x, a, f) == [type |-> t, client |-> c, tx |-> x, amount |-> a, frozen |-> f]

\* The rows the reader can deserialize.  Every field of Record is read from
\* the row, the frozen flag included.  The code never looks at the frozen
\* flag of a row it does not store (a deposit or withdrawal without amount,
\* a dispute, resolve, chargeback or unknown row) nor at the amount of a
\* dispute, resolve, chargeback or unknown row, so those rows are enumerated
\* with frozen false and amount None.
\* Client 1 is sent every row; client 2 is sent the rows of one deposit and
\* its dispute and chargeback, and a row of unknown kind, which is enough to
\* interleave a second account in any state with the first.
Records ==
    { Record(t, 1, x, Some(v), f) : t \in {"deposit", "withdrawal"}, x \in TxIds,
                                    v \in Amounts, f \in BOOLEAN }
    \cup
    { Record(t, 1, x, None, FALSE) :
          t \in {"deposit", "withdrawal", "dispute", "resolve", "chargeback", UnknownKind},
          x \in TxIds }
    \cup
    { Record("deposit", 2, 1, Some(1000000), FALSE), Record("dispute", 2, 1, None, FALSE),
      Record("chargeback", 2, 1, None, FALSE), Record(UnknownKind, 2, 1, None, FALSE) }

\* ----------------------------------------------------------------------
\* AccountDetails (transaction.rs:61-82)
\* ----------------------------------------------------------------------

\* (x * 10000.0).round() / 10000.0 : nearest multiple of 1e-4, ties away from zero
Round4(x) == IF x >= 0 THEN ((x + 5) \div 10) * 10 ELSE 0 - (((0 - x) + 5) \div 10) * 10

round_values(d) ==
    [d EXCEPT !.held = Round4(d.held), !.total = Round4(d.total), !.available = Round4(d.available)]

recompute_total(d) == round_values([d EXCEPT !.total = d.available + d.held])

\* ----------------------------------------------------------------------
\* LiveAccount (transaction.rs:84-199)
\* ----------------------------------------------------------------------

\* HashMap::insert
Insert(m, k, v) == [j \in (DOMAIN m) \cup {k} |-> IF j = k THEN v ELSE m[j]]

deposit(acc, record) ==
    IF acc.account_details.locked THEN acc
    ELSE IF record.amount = None THEN acc
    ELSE [acc EXCEPT !.account_details.available = @ + record.amount[1],
                     !.transaction_record = Insert(@, record.tx, record)]

\* withdraw with a sufficiency check the code does not make
withdraw_checked(acc, record) ==
    IF acc.account_details.locked THEN acc
    ELSE IF record.amount = None THEN acc
    ELSE IF acc.account_details.available < record.amount[1] THEN acc
    ELSE [acc EXCEPT !.account_details.available = @ - record.amount[1],
                     !.transaction_record = Insert(@, record.tx, record)]

withdraw(acc, record) ==
    IF acc.account_details.locked THEN acc
    ELSE IF record.amount = None THEN acc
    ELSE [acc EXCEPT !.account_details.available = @ - record.amount[1],
                     !.transaction_record = Insert(@, record.tx, record)]

dispute(acc, record) ==
    IF acc.account_details.locked THEN acc
    ELSE IF record.tx \notin DOMAIN acc.transaction_record THEN acc
    ELSE LET transaction == acc.transaction_record[record.tx] IN
         IF transaction.frozen THEN acc
         ELSE IF transaction.amount = None THEN acc
         ELSE [acc EXCEPT !.account_details.available = @ - transaction.amount[1],
                          !.account_details.held = @ + transaction.amount[1],
                          !.transaction_record[record.tx].frozen = TRUE]

\* resolve that takes the account's locked flag for the transaction's frozen flag
resolve_unlocks(acc, record) ==
    IF record.tx \notin DOMAIN acc.transaction_record THEN acc
    ELSE LET transaction == acc.transaction_record[record.tx] IN
         IF ~transaction.frozen THEN acc
         ELSE IF transaction.amount = None
              THEN [acc EXCEPT !.account_details.locked = FALSE]
              ELSE [acc EXCEPT !.account_details.locked = FALSE,
                               !.account_details.available = @ + transaction.amount[1],
                               !.account_details.held = @ - transaction.amount[1]]

resolve(acc, record) ==
    IF acc.account_details.locked THEN acc
    ELSE IF record.tx \notin DOMAIN acc.transaction_record THEN acc
    ELSE LET transaction == acc.transaction_record[record.tx] IN
         IF ~transaction.frozen THEN acc
         ELSE IF transaction.amount = None
              THEN [acc EXCEPT !.transaction_record[record.tx].frozen = FALSE]
              ELSE [acc EXCEPT !.transaction_record[record.tx].frozen = FALSE,
                               !.account_details.available = @ + transaction.amount[1],
                               !.account_details.held = @ - transaction.amount[1]]

\* chargeback that only requires the transaction to be stored, not disputed
chargeback_undisputed(acc, record) ==
    IF record.tx \notin DOMAIN acc.transaction_record THEN acc
    ELSE LET transaction == acc.transaction_record[record.tx] IN
         IF transaction.amount = None THEN acc
         ELSE [acc EXCEPT !.account_details.held = @ - transaction.amount[1],
                          !.account_details.locked = TRUE]

chargeback(acc, record) ==
    IF record.tx \notin DOMAIN acc.transaction_record THEN acc
    ELSE LET transaction == acc.transaction_record[record.tx] IN
         IF ~transaction.frozen THEN acc
         ELSE IF transaction.amount = None THEN acc
         ELSE [acc EXCEPT !.account_details.held = @ - transaction.amount[1],
                          !.account_details.locked = TRUE]

\* the match on record.type: the default arm returns before the recomputation
Dispatch(acc, record) ==
    CASE record.type = "deposit"    -> deposit(acc, record)
      [] record.type = "withdrawal" -> withdraw(acc, record)
      [] record.type = "dispute"    -> dispute(acc, record)
      [] record.type = "resolve"    -> resolve(acc, record)
      [] record.type = "chargeback" -> chargeback(acc, record)
      [] OTHER                      -> acc

\* process_transaction whose default arm falls through to the recomputation
process_transaction_always(acc, record) ==
    [Dispatch(acc, record) EXCEPT !.account_details = recompute_total(@)]

process_transaction(acc, record) ==
    IF record.type \in Kinds
    THEN [Dispatch(acc, record) EXCEPT !.account_details = recompute_total(@)]
    ELSE acc

\* ----------------------------------------------------------------------
\* AccountRegistry (transaction.rs:16-59) and the run (main.rs:31-59)
\* ----------------------------------------------------------------------

fresh_account(id) ==
    [transaction_record |-> << >>,
     account_details |-> [client |-> id, available |-> 0, held |-> 0, total |-> 0, locked |-> FALSE]]

add_account(accts, id) == Insert(accts, id, fresh_account(id))

VARIABLES
    accounts,   \* AccountRegistry.accounts : client id -> LiveAccount
    pc,         \* where the run is: "reading", "done" or "aborted"
    nread,      \* rows read from the input so far
    output,     \* the rows written to stdout
    exit_code,  \* the exit status of the process
    last,       \* Option<Record>: the record process_record was last called with
    account,    \* Option<LiveAccount>: the account that record was applied to, before it
    replay,     \* history: client id -> the account obtained by applying, to a fresh
                \* account, only the rows read so far that name this client
    used,       \* history: client id -> tx ids of the deposit/withdrawal rows read so far
    reused      \* history: some deposit/withdrawal row repeated a tx id of its client

vars == <<accounts, pc, nread, output, exit_code, last, account, replay, used, reused>>

Init ==
    /\ accounts = << >>
    /\ pc = "reading"
    /\ nread = 0
    /\ output = {}
    /\ exit_code = 0
    /\ last = None
    /\ account = None
    /\ replay = << >>
    /\ used = [c \in Clients |-> {}]
    /\ reused = FALSE

\* the history kept of a row that deserializes to `record`
Remember(record) ==
    /\ replay' = Insert(replay, record.client,
                        process_transaction(IF record.client \in DOMAIN replay
                                            THEN replay[record.client]
                                            ELSE fresh_account(record.client), record))
    /\ IF record.type \in {"deposit", "withdrawal"}
       THEN /\ used' = [used EXCEPT ![record.client] = @ \cup {record.tx}]
            /\ reused' = (reused \/ record.tx \in used[record.client])
       ELSE UNCHANGED <<used, reused>>

\* process_record that inserts a fresh account whether or not the entry is occupied
process_record_recreate(record) ==
    /\ pc = "reading"
    /\ nread < MaxRecords
    /\ LET accts == add_account(accounts, record.client)
           acc   == accts[record.client]
       IN /\ accounts' = [accts EXCEPT ![record.client] = process_transaction(acc, record)]
          /\ account' = Some(acc)
    /\ last' = Some(record)
    /\ nread' = nread + 1
    /\ Remember(record)
    /\ UNCHANGED <<pc, output, exit_code>>

\* process_record that keys the registry by record.tx instead of record.client
process_record_by_tx(record) ==
    /\ pc = "reading"
    /\ nread < MaxRecords
    /\ LET accts == IF record.tx \in DOMAIN accounts THEN accounts
                    ELSE add_account(accounts, record.tx)
           acc   == accts[record.tx]
       IN /\ accounts' = [accts EXCEPT ![record.tx] = process_transaction(acc, record)]
          /\ account' = Some(acc)
    /\ last' = Some(record)
    /\ nread' = nread + 1
    /\ Remember(record)
    /\ UNCHANGED <<pc, output, exit_code>>

\* one iteration of the read loop on a row that deserializes to `record`
process_record(record) ==
    /\ pc = "reading"
    /\ nread < MaxRecords
    /\ LET accts == IF record.client \in DOMAIN accounts THEN accounts
                    ELSE add_account(accounts, record.client)
           acc   == accts[record.client]
       IN /\ accounts' = [accts EXCEPT ![record.client] = process_transaction(acc, record)]
          /\ account' = Some(acc)
    /\ last' = Some(record)
    /\ nread' = nread + 1
    /\ Remember(record)
    /\ UNCHANGED <<pc, output, exit_code>>

\* a failing row after which the accounts read so far are still written out
ParseError_partial ==
    /\ pc = "reading"
    /\ nread < MaxRecords
    /\ pc' = "aborted"
    /\ exit_code' = 1
    /\ nread' = nread + 1
    /\ output' = {accounts[c].account_details : c \in DOMAIN accounts}
    /\ UNCHANGED <<accounts, last, account, replay, used, reused>>

\* one iteration of the read loop on a row that fails to deserialize:
\* the ? operator returns the error from run, main prints it and exits with 1
ParseError ==
    /\ pc = "reading"
    /\ nread < MaxRecords
    /\ pc' = "aborted"
    /\ exit_code' = 1
    /\ nread' = nread + 1
    /\ UNCHANGED <<accounts, output, last, account, replay, used, reused>>

\* the reader is exhausted: the accounts are serialized to stdout
output_records ==
    /\ pc = "reading"
    /\ output' = {accounts[c].account_details : c \in DOMAIN accounts}
    /\ pc' = "done"
    /\ UNCHANGED <<accounts, nread, exit_code, last, account, replay, used, reused>>

Next ==
    \/ \E record \in Records : process_record(record)
    \/ ParseError
    \/ output_records

Spec == Init /\ [][Next]_vars

TypeOK ==
    /\ pc \in {"reading", "done", "aborted"}
    /\ nread \in 0..MaxRecords
    /\ DOMAIN accounts \subseteq Clients

\* ----------------------------------------------------------------------
\* Reading the last step
\* ----------------------------------------------------------------------

Applied == last /= None

Rec == last[1]

Pre == account[1]

Post == accounts[Rec.client]

PreD == Pre.account_details

PostD == Post.account_details

Stored(acc, x) == x \in DOMAIN acc.transaction_record

Disputed(acc, x) == Stored(acc, x) /\ acc.transaction_record[x].frozen

StoredAmount(acc, x) == acc.transaction_record[x].amount[1]

Balances(d) == <<d.available, d.held, d.total, d.locked>>

\* ----------------------------------------------------------------------
\* Claims
\* ----------------------------------------------------------------------

\* C1: in every account, after every processed record, the stored total is
\* the stored available plus the stored held, each a 4-decimal-place value.
C1_BalanceInvariant ==
    \A c \in DOMAIN accounts :
        LET d == accounts[c].account_details IN
        /\ d.total = d.available + d.held
        /\ d.available % 10 = 0 /\ d.held % 10 = 0 /\ d.total % 10 = 0

\* C2: a record of any kind applied to a locked account changes neither its
\* available nor its held.
C2_LockFreezesBalances ==
    (Applied /\ PreD.locked) =>
        (PostD.available = PreD.available /\ PostD.held = PreD.held)

\* C3: locked is monotonic: an account that is locked stays in the registry
\* and stays locked after every later step of the run.
C3_LockedMonotonic ==
    [][\A c \in DOMAIN accounts :
          accounts[c].account_details.locked =>
              (c \in DOMAIN accounts' /\ accounts'[c].account_details.locked)]_vars

\* a record of a dispatched kind has been applied to an already locked account
C3_Witness ==
    Applied /\ PreD.locked /\ PostD.locked /\ Rec.type \in Kinds

\* C4: on an unlocked account holding an undisputed deposit tx, dispute(tx)
\* followed at once by resolve(tx) restores available, held and the disputed
\* flag of tx to what they were before the dispute.
C4_DisputeResolveRoundTrip ==
    \A c \in DOMAIN accounts : \A x \in TxIds :
        LET acc == accounts[c] IN
        (/\ ~acc.account_details.locked
         /\ Stored(acc, x)
         /\ acc.transaction_record[x].type = "deposit"
         /\ ~acc.transaction_record[x].frozen)
        => LET d == process_transaction(acc, Record("dispute", c, x, None, FALSE))
               r == process_transaction(d, Record("resolve", c, x, None, FALSE))
           IN /\ Disputed(d, x)
              /\ r.account_details.available = acc.account_details.available
              /\ r.account_details.held = acc.account_details.held
              /\ r.transaction_record[x].frozen = acc.transaction_record[x].frozen

\* C5: chargeback(tx) on a stored transaction that is disputed subtracts its
\* amount from held, leaves available unchanged and locks the account;
\* on a stored transaction that is not disputed it changes nothing.
C5_ChargebackEffect ==
    (Applied /\ Rec.type = "chargeback" /\ Stored(Pre, Rec.tx)) =>
        IF Disputed(Pre, Rec.tx)
        THEN /\ PostD.held = PreD.held - StoredAmount(Pre, Rec.tx)
             /\ PostD.available = PreD.available
             /\ PostD.locked
        ELSE Post = Pre

\* C6: a charged-back transaction is terminal: once chargeback(tx) has taken
\* effect, a later dispute(tx), resolve(tx) or chargeback(tx) leaves
\* available, held, total and locked unchanged.
C6_ChargedbackTerminal ==
    (Applied /\ Rec.type = "chargeback" /\ Disputed(Pre, Rec.tx)) =>
        \A k \in {"dispute", "resolve", "chargeback"} :
            Balances(process_transaction(Post, Record(k, Rec.client, Rec.tx, None, FALSE)).account_details)
                = Balances(PostD)

\* C7: a dispute, resolve or chargeback naming a tx the account has not
\* stored leaves available, held, total and locked unchanged.
C7_UnknownTxNoOp ==
    (Applied /\ Rec.type \in {"dispute", "resolve", "chargeback"} /\ ~Stored(Pre, Rec.tx)) =>
        Balances(PostD) = Balances(PreD)

\* C8: a dispute naming a stored transaction that is already disputed leaves
\* available, held, total, locked and the disputed flag unchanged.
C8_DoubleDisputeNoOp ==
    (Applied /\ Rec.type = "dispute" /\ Disputed(Pre, Rec.tx)) =>
        (Balances(PostD) = Balances(PreD) /\ Disputed(Post, Rec.tx))

\* C9: a successful dispute on an unlocked account moves exactly the stored
\* amount from available to held and leaves total unchanged; a successful
\* resolve leaves total unchanged.
C9_DisputeConservesTotal ==
    (Applied /\ ~PreD.locked /\ Stored(Pre, Rec.tx)) =>
        /\ (Rec.type = "dispute" /\ ~Disputed(Pre, Rec.tx)) =>
              /\ PostD.available = PreD.available - StoredAmount(Pre, Rec.tx)
              /\ PostD.held = PreD.held + StoredAmount(Pre, Rec.tx)
              /\ PostD.total = PreD.total
        /\ (Rec.type = "resolve" /\ Disputed(Pre, Rec.tx)) =>
              PostD.total = PreD.total

\* C10 as stated: on an unlocked account a withdrawal carrying an amount
\* decreases available by exactly that amount, leaves held unchanged and
\* stores the record.
C10_WithdrawExact ==
    (Applied /\ Rec.type = "withdrawal" /\ Rec.amount /= None /\ ~PreD.locked) =>
        /\ PostD.available = PreD.available - Rec.amount[1]
        /\ PostD.held = PreD.held
        /\ Post.transaction_record = Insert(Pre.transaction_record, Rec.tx, Rec)

\* C10 as amended: on an unlocked account a withdrawal carrying an amount
\* sets available to available minus the amount rounded to 4 decimal places
\* (exactly available minus the amount when the amount has at most 4
\* decimal places), whatever the sign of the result, leaves held and locked
\* unchanged, sets total to the rounded sum of the unrounded new available and
\* held, and stores the record.
C10_WithdrawRounded ==
    (Applied /\ Rec.type = "withdrawal" /\ Rec.amount /= None /\ ~PreD.locked) =>
        /\ PostD.available = Round4(PreD.available - Rec.amount[1])
        /\ (Rec.amount[1] % 10 = 0 => PostD.available = PreD.available - Rec.amount[1])
        /\ PostD.held = PreD.held
        /\ ~PostD.locked
        /\ PostD.total = Round4(PreD.available - Rec.amount[1] + PreD.held)
        /\ Post.transaction_record = Insert(Pre.transaction_record, Rec.tx, Rec)

\* a withdrawal of 50.0 applied to a brand-new account left it at
\* available = -50.0, held = 0, total = -50.0, unlocked
C10_Witness ==
    /\ Applied /\ Rec.type = "withdrawal" /\ Rec.amount = Some(5000000)
    /\ Pre = fresh_account(Rec.client)
    /\ Balances(PostD) = <<0 - 5000000, 0, 0 - 5000000, FALSE>>

\* C11: on an unlocked account a deposit carrying an amount increases
\* available by exactly that amount, leaves held and locked unchanged, stores
\* the record under its tx with disputed = false, and leaves total equal to
\* the new available plus held.
C11_DepositEffect ==
    (Applied /\ Rec.type = "deposit" /\ Rec.amount /= None /\ ~PreD.locked) =>
        /\ PostD.available = PreD.available + Rec.amount[1]
        /\ PostD.held = PreD.held
        /\ ~PostD.locked
        /\ Stored(Post, Rec.tx)
        /\ Post.transaction_record[Rec.tx].amount = Rec.amount
        /\ ~Post.transaction_record[Rec.tx].frozen
        /\ PostD.total = PostD.available + PostD.held

\* C12: a record of a kind other than deposit, withdrawal, dispute, resolve
\* and chargeback leaves the addressed account (available, held, total,
\* locked and the stored transactions) unchanged; a fresh account stays
\* all-zero, unlocked, with nothing stored.
C12_UnknownKindNoOp ==
    (Applied /\ Rec.type \notin Kinds) =>
        /\ Post = Pre
        /\ (Pre = fresh_account(Rec.client) =>
               /\ Balances(PostD) = <<0, 0, 0, FALSE>>
               /\ DOMAIN Post.transaction_record = {})

\* a record of unknown kind was applied to an account whose total a
\* recomputation would have changed
C12_Witness ==
    /\ Applied /\ Rec.type \notin Kinds
    /\ PreD.total /= PreD.available + PreD.held

\* the clients named by the rows read so far
Seen == DOMAIN replay

\* C13: the registry holds exactly the clients named by the rows read so
\* far, the rows written at the end are one per such client, a client all of
\* whose rows were of unknown kind has zero balances and is unlocked, and no
\* step removes an account or resets one to the fresh account.
C13_RegistryComplete ==
    /\ [](/\ DOMAIN accounts = Seen
          /\ \A c \in DOMAIN accounts : accounts[c].account_details.client = c
          /\ pc = "done" =>
                /\ {d.client : d \in output} = Seen
                /\ Cardinality(output) = Cardinality(Seen)
          /\ \A c \in Seen :
                replay[c] = fresh_account(c) => accounts[c] = fresh_account(c))
    /\ [][\A c \in DOMAIN accounts :
             /\ c \in DOMAIN accounts'
             /\ DOMAIN accounts[c].transaction_record \subseteq DOMAIN accounts'[c].transaction_record
             /\ (accounts'[c] = fresh_account(c) => accounts[c] = fresh_account(c))]_vars

\* the run ended with both clients written out, client 2 having been sent
\* only rows that left it at zero, client 1 holding a stored transaction
C13_Witness ==
    /\ pc = "done" /\ Seen = {1, 2} /\ Cardinality(output) = 2
    /\ accounts[2] = fresh_account(2)
    /\ DOMAIN accounts[1].transaction_record /= {}

\* C14: a run that hit a row that does not parse has written no account row
\* and exits with a nonzero status; account rows are written only by a run
\* that read every row, after which no further row is applied.
C14_NoPartialOutput ==
    /\ [](/\ pc = "aborted" => (output = {} /\ exit_code /= 0)
          /\ output /= {} => (pc = "done" /\ exit_code = 0)
          /\ pc = "reading" => output = {})
    /\ [][pc /= "reading" => UNCHANGED <<accounts, output>>]_vars

\* the last row of the input failed to parse after rows that created accounts
C14_Witness ==
    pc = "aborted" /\ nread = MaxRecords /\ DOMAIN accounts /= {} /\ output = {}

\* C15: on a locked account a deposit, withdrawal, dispute or resolve leaves
\* available, held, total and locked unchanged, stores nothing and changes
\* no disputed flag.
C15_LockedRejects ==
    (Applied /\ PreD.locked /\ Rec.type \in {"deposit", "withdrawal", "dispute", "resolve"}) =>
        (Balances(PostD) = Balances(PreD) /\ Post.transaction_record = Pre.transaction_record)

\* C16: a deposit or withdrawal without amount leaves available, held, total
\* and locked unchanged and stores nothing.
C16_MissingAmountNoOp ==
    (Applied /\ Rec.type \in {"deposit", "withdrawal"} /\ Rec.amount = None) =>
        (Balances(PostD) = Balances(PreD) /\ Post.transaction_record = Pre.transaction_record)

\* C17: a deposit or withdrawal accepted by an unlocked account under a tx
\* that is already stored replaces the stored transaction by the new record,
\* with the new amount and disputed = false, and a dispute of that tx then
\* moves the new amount.
C17_DuplicateOverwrites ==
    (/\ Applied /\ Rec.type \in {"deposit", "withdrawal"} /\ Rec.amount /= None
     /\ ~PreD.locked /\ Stored(Pre, Rec.tx)) =>
        /\ Post.transaction_record[Rec.tx].amount = Rec.amount
        /\ Post.transaction_record[Rec.tx].type = Rec.type
        /\ ~Post.transaction_record[Rec.tx].frozen
        /\ LET d == process_transaction(Post, Record("dispute", Rec.client, Rec.tx, None, FALSE))
           IN /\ d.account_details.held = Round4(PostD.held + Rec.amount[1])
              /\ d.account_details.available = Round4(PostD.available - Rec.amount[1])

\* C18: a step changes no account other than the one its row names, and
\* every account equals the replay, on a fresh account, of the rows that
\* name its client.
C18_ClientIsolation ==
    /\ [](accounts = replay)
    /\ [][\A c \in DOMAIN accounts :
             (c \in DOMAIN accounts' /\ accounts'[c] /= accounts[c]) =>
                 (nread' = nread + 1 /\ last' /= None /\ last'[1].client = c)]_vars

\* a row of one client was applied while the other client's account held a
\* stored transaction
C18_Witness ==
    /\ Applied /\ Post /= Pre
    /\ \E c \in DOMAIN accounts :
          c /= Rec.client /\ DOMAIN accounts[c].transaction_record /= {}

\* C19: an account becomes locked only in a step that applies to it a
\* chargeback naming a stored transaction that is disputed at that moment;
\* an account is created unlocked.
C19_LockedOnlyByChargeback ==
    [][\A c \in DOMAIN accounts' :
          (accounts'[c].account_details.locked
           /\ ~(c \in DOMAIN accounts /\ accounts[c].account_details.locked)) =>
              /\ c \in DOMAIN accounts
              /\ last' /= None /\ nread' = nread + 1
              /\ last'[1].client = c
              /\ last'[1].type = "chargeback"
              /\ Disputed(accounts[c], last'[1].tx)]_vars

\* a chargeback has just locked an account that was unlocked
C19_Witness ==
    Applied /\ ~PreD.locked /\ PostD.locked /\ Rec.type = "chargeback"

RECURSIVE AmountSum(_, _)
AmountSum(acc, txs) ==
    IF txs = {} THEN 0
    ELSE LET x == CHOOSE y \in txs : TRUE
         IN StoredAmount(acc, x) + AmountSum(acc, txs \ {x})

\* the sum of the amounts of the disputed stored transactions of an account
DisputedSum(acc) ==
    AmountSum(acc, {x \in DOMAIN acc.transaction_record : acc.transaction_record[x].frozen})

\* C20: while no deposit/withdrawal row has repeated a tx id of its client,
\* the held of an unlocked account is the sum of the amounts of its disputed
\* stored transactions.
C20_HeldMatchesDisputes ==
    ~reused =>
        \A c \in DOMAIN accounts :
            ~accounts[c].account_details.locked =>
                accounts[c].account_details.held = DisputedSum(accounts[c])

=============================================================================
